---- MODULE Spec2Model ----
(***************************************************************************)
(* Model of pyyoutube/utils/params_checker.py: the five parameter checkers *)
(* comma_separated_validator, parts_validator, incompatible_validator,     *)
(* enf_comma_separated and enf_parts.                                      *)
(*                                                                         *)
(* A Python str is a sequence of one-character strings; the literal text   *)
(* of an f-string is kept as one atom of the sequence, so a message is the *)
(* concatenation the f-string builds.  A Python value is a record          *)
(* [kind, s, n, items, elems]; every value has all five fields.            *)
(* A function's result is an outcome record: a return with its value, or a *)
(* raise with the exception's class, and for PyYouTubeException its        *)
(* status_code and message.  Where the result depends on the iteration     *)
(* order of a Python set, the function yields the set of outcomes over     *)
(* all orders.                                                             *)
(***************************************************************************)
EXTENDS Integers, Sequences, FiniteSets, TLC

\* ------------------------------------------------------------------ bounds
MaxLen == 4       \* longest str passed as a value
MaxElemLen == 1   \* longest str inside a collection
MaxItems == 2     \* longest list / tuple, largest set
MaxKw == 3        \* most keyword arguments in one call

\* ----------------------------------------------------------------- strings
Alphabet == {"a", "b", ","}

StrsUpTo(n) == UNION {[1..k -> Alphabet] : k \in 0..n}

Range(f) == {f[i] : i \in DOMAIN f}

\* str.split(","): the maximal comma-free pieces, in order; "" gives [""].
RECURSIVE SplitComma(_)
SplitComma(s) ==
  IF \A i \in 1..Len(s) : s[i] # ","
  THEN <<s>>
  ELSE LET i == CHOOSE k \in 1..Len(s) :
                  s[k] = "," /\ \A j \in 1..(k-1) : s[j] # ","
       IN <<SubSeq(s, 1, i-1)>> \o SplitComma(SubSeq(s, i+1, Len(s)))

\* ",".join(seq) for a sequence of str.
RECURSIVE JoinComma(_)
JoinComma(q) ==
  IF Len(q) = 0 THEN <<>>
  ELSE IF Len(q) = 1 THEN q[1]
  ELSE q[1] \o <<",">> \o JoinComma(Tail(q))

\* The orders in which a Python set may be iterated.
Orders(S) ==
  {f \in [1..Cardinality(S) -> S] : \A i, j \in DOMAIN f : i # j => f[i] # f[j]}

\* ------------------------------------------------------------ Python values
Val(k, s, n, items, elems) ==
  [kind |-> k, s |-> s, n |-> n, items |-> items, elems |-> elems]

PyNone == Val("NoneType", <<>>, 0, <<>>, {})
PyStr(s) == Val("str", s, 0, <<>>, {})
PyInt(n) == Val("int", <<>>, n, <<>>, {})
PyBool(n) == Val("bool", <<>>, n, <<>>, {})
PyBytes(s) == Val("bytes", s, 0, <<>>, {})
PyList(q) == Val("list", <<>>, 0, q, {})
PyTuple(q) == Val("tuple", <<>>, 0, q, {})
PySet(S) == Val("set", <<>>, 0, <<>>, S)

\* isinstance(v, str), isinstance(v, (list, tuple, set))
IsStr(v) == v.kind = "str"
IsCollection(v) == v.kind \in {"list", "tuple", "set"}

\* hasattr(v, "split"): str and bytes have the method.
HasSplit(v) == v.kind \in {"str", "bytes"}

\* set(value) for a list, tuple or set.
AsSet(v) == IF v.kind = "set" THEN v.elems ELSE Range(v.items)

\* The orders in which iterating the collection yields its elements.
IterOrders(v) == IF v.kind = "set" THEN Orders(v.elems) ELSE {v.items}

\* --------------------------------------------------------------- outcomes
Outcome(tag, exc, code, msg, val, log) ==
  [tag |-> tag, exc |-> exc, code |-> code, msg |-> msg, val |-> val, log |-> log]

\* A normal return of val, after the log lines in log.
Returns(val, log) == Outcome("return", "", "", <<>>, val, log)

\* raise PyYouTubeException(ErrorMessage(status_code=code, message=msg))
RaisesPyYouTube(code, msg, log) ==
  Outcome("raise", "PyYouTubeException", code, msg, PyNone, log)

\* An exception of a Python built-in class leaving the function.
RaisesBuiltin(exc, log) == Outcome("raise", exc, "", <<>>, PyNone, log)

INVALID_PARAMS == "INVALID_PARAMS"
MISSING_PARAMS == "MISSING_PARAMS"

\* ------------------------------------------------------- the lookup table
\* pyyoutube.utils.constants.RESOURCE_PARTS_MAPPING: resource name -> set of
\* permitted part tokens.  Two resources over the model's alphabet.
Video == <<"v">>
Channel == <<"c">>
RESOURCE_PARTS_MAPPING ==
  (Video :> {PyStr(<<"a">>), PyStr(<<"a", "b">>)}) @@
  (Channel :> {PyStr(<<"a">>), PyStr(<<"b">>), PyStr(<<"b", "a">>)})

\* A resource name that is no key of the table.
Unknown == <<"u">>

\* ------------------------------------------------------- shared fragments
\* param.split(","): the list for a str; bytes.split refuses a str
\* separator (TypeError); any other type has no split (AttributeError).
SplitAttempt(v) ==
  IF v.kind = "str" THEN "ok"
  ELSE IF v.kind = "bytes" THEN "TypeError"
  ELSE "AttributeError"

\* set(value.split(",")) for a str value.
SplitSet(v) == {PyStr(tok) : tok \in Range(SplitComma(v.s))}

\* ",".join(order) for an iteration order of values: the joined str, or
\* TypeError when an item is not a str.
JoinFails(order) == \E i \in DOMAIN order : ~IsStr(order[i])
JoinValues(order) == JoinComma([i \in DOMAIN order |-> order[i].s])

\* f"Part {not_support_parts} for resource {resource} not support"
PartMessage(joined, resource) ==
  <<"Part ">> \o joined \o <<" for resource ">> \o resource \o <<" not support">>

\* f"Parts {not_support_parts} for resource {resource} not support"
PartsMessage(joined, resource) ==
  <<"Parts ">> \o joined \o <<" for resource ">> \o resource \o <<" not support">>

\* f"Parameter {name} must be str or comma-separated list str"
CommaMessage(name) ==
  <<"Parameter ">> \o name \o <<" must be str or comma-separated list str">>

\* f"Specify at least one of {params}"
MissingMessage(params) == <<"Specify at least one of ">> \o params

\* f"Incompatible parameters specified for {params}"
IncompatibleMessage(params) ==
  <<"Incompatible parameters specified for ">> \o params

\* f"Parameter ({field}) must be single str,comma-separated str,list,tuple or set"
FieldMessage(field) ==
  <<"Parameter (">> \o field
    \o <<") must be single str,comma-separated str,list,tuple or set">>

\* "Parameter (parts) must be single str,comma-separated str,list,tuple or set"
PartsTypeMessage ==
  <<"Parameter (parts) must be single str,comma-separated str,list,tuple or set">>

\* logging.warning(f"Note: The order of the set is unreliable.")
SetOrderWarning == "Note: The order of the set is unreliable."

\* ------------------------------------------------- comma_separated_validator
\* kwargs is the sequence of [name, value] in the order of the call.
RECURSIVE comma_separated_validator(_)
comma_separated_validator(kwargs) ==
  IF Len(kwargs) = 0 THEN Returns(PyNone, <<>>)
  ELSE LET name == kwargs[1].name
           param == kwargs[1].value
       IN IF param = PyNone THEN comma_separated_validator(Tail(kwargs))
          ELSE IF SplitAttempt(param) = "ok"
               THEN comma_separated_validator(Tail(kwargs))
          ELSE IF SplitAttempt(param) = "AttributeError"
               THEN RaisesPyYouTube(INVALID_PARAMS, CommaMessage(name), <<>>)
          ELSE RaisesBuiltin(SplitAttempt(param), <<>>)

\* ------------------------------------------------------------ parts_validator
\* The outcomes of a requested set parts that the table's set for resource
\* does not cover: the message names the difference, in each of its orders
\* (plural: the wording of enf_parts, "Parts"; else of parts_validator, "Part").
UnsupportedOutcomes(tbl, resource, parts, plural) ==
  LET not_support == parts \ tbl[resource]
      Message(j) == IF plural THEN PartsMessage(j, resource)
                    ELSE PartMessage(j, resource)
  IN {IF JoinFails(o) THEN RaisesBuiltin("TypeError", <<>>)
      ELSE RaisesPyYouTube(INVALID_PARAMS, Message(JoinValues(o)), <<>>)
        : o \in Orders(not_support)}

\* Mutant: the message joins parts, not parts.difference(support_parts)
\* (line 54).
parts_validator_names_all(tbl, resource, parts) ==
  IF parts = PyNone THEN {Returns(PyNone, <<>>)}
  ELSE IF resource \notin DOMAIN tbl THEN {RaisesBuiltin("KeyError", <<>>)}
  ELSE IF SplitAttempt(parts) # "ok"
       THEN {RaisesBuiltin(SplitAttempt(parts), <<>>)}
  ELSE IF SplitSet(parts) \subseteq tbl[resource] THEN {Returns(PyNone, <<>>)}
  ELSE {RaisesPyYouTube(INVALID_PARAMS,
                        PartMessage(JoinValues(o), resource), <<>>)
          : o \in Orders(SplitSet(parts))}

parts_validator(tbl, resource, parts) ==
  IF parts = PyNone THEN {Returns(PyNone, <<>>)}
  ELSE IF resource \notin DOMAIN tbl THEN {RaisesBuiltin("KeyError", <<>>)}
  ELSE IF SplitAttempt(parts) # "ok"
       THEN {RaisesBuiltin(SplitAttempt(parts), <<>>)}
  ELSE IF SplitSet(parts) \subseteq tbl[resource] THEN {Returns(PyNone, <<>>)}
  ELSE UnsupportedOutcomes(tbl, resource, SplitSet(parts), FALSE)

\* ----------------------------------------------------- incompatible_validator
RECURSIVE CountGiven(_)
CountGiven(kwargs) ==
  IF Len(kwargs) = 0 THEN 0
  ELSE (IF kwargs[1].value # PyNone THEN 1 ELSE 0) + CountGiven(Tail(kwargs))

\* ",".join(kwargs.keys())
KeysJoined(kwargs) == JoinComma([i \in DOMAIN kwargs |-> kwargs[i].name])

\* bool(v): None, "", 0, False and empty collections are falsy.
Truthy(v) ==
  IF v.kind \in {"str", "bytes"} THEN Len(v.s) > 0
  ELSE IF v.kind \in {"int", "bool"} THEN v.n # 0
  ELSE IF v.kind \in {"list", "tuple"} THEN Len(v.items) > 0
  ELSE IF v.kind = "set" THEN v.elems # {}
  ELSE FALSE

\* Mutant: "if param:" in place of "if param is not None:" (line 76).
incompatible_validator_truthy(kwargs) ==
  LET given == Cardinality({i \in DOMAIN kwargs : Truthy(kwargs[i].value)})
      params == KeysJoined(kwargs)
  IN IF given = 0
     THEN RaisesPyYouTube(MISSING_PARAMS, MissingMessage(params), <<>>)
     ELSE IF given > 1
     THEN RaisesPyYouTube(INVALID_PARAMS, IncompatibleMessage(params), <<>>)
     ELSE Returns(PyNone, <<>>)

incompatible_validator(kwargs) ==
  LET given == CountGiven(kwargs)
      params == KeysJoined(kwargs)
  IN IF given = 0
     THEN RaisesPyYouTube(MISSING_PARAMS, MissingMessage(params), <<>>)
     ELSE IF given > 1
     THEN RaisesPyYouTube(INVALID_PARAMS, IncompatibleMessage(params), <<>>)
     ELSE Returns(PyNone, <<>>)

\* -------------------------------------------------------- enf_comma_separated
\* Mutant: ",".join(set(value)) in place of ",".join(value) (line 119).
enf_comma_separated_via_set(field, value) ==
  IF value = PyNone THEN {Returns(PyNone, <<>>)}
  ELSE IF IsStr(value) THEN {Returns(value, <<>>)}
  ELSE IF IsCollection(value)
       THEN LET log == IF value.kind = "set" THEN <<SetOrderWarning>> ELSE <<>>
            IN {IF JoinFails(o)
                THEN RaisesPyYouTube(INVALID_PARAMS, FieldMessage(field), log)
                ELSE Returns(PyStr(JoinValues(o)), log) : o \in Orders(AsSet(value))}
  ELSE {RaisesPyYouTube(INVALID_PARAMS, FieldMessage(field), <<>>)}

enf_comma_separated(field, value) ==
  IF value = PyNone THEN {Returns(PyNone, <<>>)}
  ELSE IF IsStr(value) THEN {Returns(value, <<>>)}
  ELSE IF IsCollection(value)
       THEN LET log == IF value.kind = "set" THEN <<SetOrderWarning>> ELSE <<>>
            IN {IF JoinFails(o)
                THEN RaisesPyYouTube(INVALID_PARAMS, FieldMessage(field), log)
                ELSE Returns(PyStr(JoinValues(o)), log) : o \in IterOrders(value)}
  ELSE {RaisesPyYouTube(INVALID_PARAMS, FieldMessage(field), <<>>)}

\* ------------------------------------------------------------------ enf_parts
\* Lines 150-162: the requested set.  aliased says that parts is the table's
\* own set object, not a new set.
Resolved(tag, parts, aliased, out) ==
  [tag |-> tag, parts |-> parts, aliased |-> aliased, out |-> out]

enf_parts_resolve(tbl, resource, value) ==
  IF value = PyNone
  THEN IF resource \in DOMAIN tbl
       THEN Resolved("parts", tbl[resource], TRUE, Returns(PyNone, <<>>))
       ELSE Resolved("raise", {}, FALSE, RaisesBuiltin("KeyError", <<>>))
  ELSE IF IsStr(value)
  THEN Resolved("parts", SplitSet(value), FALSE, Returns(PyNone, <<>>))
  ELSE IF IsCollection(value)
  THEN Resolved("parts", AsSet(value), FALSE, Returns(PyNone, <<>>))
  ELSE Resolved("raise", {}, FALSE,
                RaisesPyYouTube(INVALID_PARAMS, PartsTypeMessage, <<>>))

\* Lines 163-174: the check of the requested set and the join.
\* Mutant: parts.issuperset(support_parts), the operands exchanged
\* (line 165).
enf_parts_check_exchanged(tbl, resource, parts) ==
  IF resource \notin DOMAIN tbl THEN {RaisesBuiltin("KeyError", <<>>)}
  ELSE IF ~(tbl[resource] \subseteq parts)
  THEN UnsupportedOutcomes(tbl, resource, parts, TRUE)
  ELSE {Returns(PyStr(JoinValues(o)), <<>>) : o \in Orders(parts)}

enf_parts_check(tbl, resource, parts) ==
  IF resource \notin DOMAIN tbl THEN {RaisesBuiltin("KeyError", <<>>)}
  ELSE IF ~(parts \subseteq tbl[resource])
  THEN UnsupportedOutcomes(tbl, resource, parts, TRUE)
  ELSE {Returns(PyStr(JoinValues(o)), <<>>) : o \in Orders(parts)}

\* Mutant: a list or tuple is validated as a set but joined as given,
\* ",".join(value) in place of ",".join(parts) (line 174).
enf_parts_joins_value(tbl, resource, value) ==
  LET r == enf_parts_resolve(tbl, resource, value)
  IN IF r.tag = "raise" THEN {r.out}
     ELSE IF resource \in DOMAIN tbl /\ r.parts \subseteq tbl[resource]
             /\ value.kind \in {"list", "tuple"}
     THEN {Returns(PyStr(JoinValues(value.items)), <<>>)}
     ELSE enf_parts_check(tbl, resource, r.parts)

enf_parts(tbl, resource, value) ==
  LET r == enf_parts_resolve(tbl, resource, value)
  IN IF r.tag = "raise" THEN {r.out}
     ELSE enf_parts_check(tbl, resource, r.parts)

\* ------------------------------------------------------------------ inputs
Resources == DOMAIN RESOURCE_PARTS_MAPPING \cup {Unknown}

ElemValues == {PyStr(s) : s \in StrsUpTo(MaxElemLen)} \cup {PyInt(1)}
ElemSeqs == UNION {[1..k -> ElemValues] : k \in 0..MaxItems}

\* Values of every type a caller can pass for parts / value.
Values ==
  {PyNone} \cup {PyStr(s) : s \in StrsUpTo(MaxLen)}
    \cup {PyInt(0), PyBool(0), PyBytes(<<"a">>)}
    \cup {PyList(q) : q \in ElemSeqs} \cup {PyTuple(q) : q \in ElemSeqs}
    \cup {PySet(Range(q)) : q \in ElemSeqs}

\* Keyword names (identifiers, so comma-free) and keyword values.
KwNames == {<<"x">>, <<"y">>, <<"z">>}
KwValues ==
  {PyNone, PyStr(<<>>), PyStr(<<"a">>), PyInt(0), PyBool(0), PyBytes(<<"a">>)}

\* **kwargs: distinct names, each with a value, in the order of the call.
Kwargs ==
  UNION {{kw \in [1..k -> [name : KwNames, value : KwValues]] :
            \A i, j \in 1..k : i # j => kw[i].name # kw[j].name}
         : k \in 0..MaxKw}

Fields == {<<"x">>, <<"y">>}

\* ------------------------------------------------------------------- state
VARIABLES
  table,     \* RESOURCE_PARTS_MAPPING, the module-level lookup table
  pc,        \* the caller: "idle", or "done" holding the last call's outcome
  call,      \* the call made: function and arguments
  outcome,   \* how the call ended
  tpc,       \* per thread: "idle", "resolved" (inside enf_parts) or "done"
  tcall,     \* per thread: the call in progress
  tparts,    \* per thread: enf_parts' local variable parts
  tout       \* per thread: how its call ended

vars == <<table, pc, call, outcome, tpc, tcall, tparts, tout>>
seqvars == <<pc, call, outcome>>
thrvars == <<tpc, tcall, tparts, tout>>

Threads == {1, 2}

CallOf(fn, resource, field, value, kwargs) ==
  [fn |-> fn, resource |-> resource, field |-> field, value |-> value,
   kwargs |-> kwargs]
NoCall == CallOf("", <<>>, <<>>, PyNone, <<>>)
NoOutcome == Outcome("", "", "", <<>>, PyNone, <<>>)
NoParts == Resolved("", {}, FALSE, NoOutcome)

Init ==
  /\ table = RESOURCE_PARTS_MAPPING
  /\ pc = "idle" /\ call = NoCall /\ outcome = NoOutcome
  /\ tpc = [t \in Threads |-> "idle"]
  /\ tcall = [t \in Threads |-> NoCall]
  /\ tparts = [t \in Threads |-> NoParts]
  /\ tout = [t \in Threads |-> NoOutcome]

\* None of the five functions assigns to the table or mutates one of its
\* sets: issuperset, difference and join only read their operands, also when
\* parts is the table's own set (r.aliased).
\* Mutant: the join consumes the set it iterates (parts.pop() in a loop);
\* when parts is the table's own set, the table loses the resource's parts.
table_after_check_consumed(tbl, resource, r) ==
  IF r.aliased /\ resource \in DOMAIN tbl
  THEN [tbl EXCEPT ![resource] = {}] ELSE tbl

table_after_check(tbl, resource, r) == tbl

\* ---------------------------------------------- one caller, call by call
Finish(c, o) ==
  /\ pc' = "done" /\ call' = c /\ outcome' = o
  /\ UNCHANGED <<table, thrvars>>

Call_comma_separated_validator ==
  /\ pc = "idle"
  /\ \E kw \in Kwargs :
       Finish(CallOf("comma_separated_validator", <<>>, <<>>, PyNone, kw),
              comma_separated_validator(kw))

Call_parts_validator ==
  /\ pc = "idle"
  /\ \E r \in Resources, v \in Values :
       \E o \in parts_validator(table, r, v) :
         Finish(CallOf("parts_validator", r, <<>>, v, <<>>), o)

Call_incompatible_validator ==
  /\ pc = "idle"
  /\ \E kw \in Kwargs :
       Finish(CallOf("incompatible_validator", <<>>, <<>>, PyNone, kw),
              incompatible_validator(kw))

Call_enf_comma_separated ==
  /\ pc = "idle"
  /\ \E f \in Fields, v \in Values :
       \E o \in enf_comma_separated(f, v) :
         Finish(CallOf("enf_comma_separated", <<>>, f, v, <<>>), o)

Call_enf_parts ==
  /\ pc = "idle"
  /\ \E r \in Resources, v \in Values :
       \E o \in enf_parts(table, r, v) :
         Finish(CallOf("enf_parts", r, <<>>, v, <<>>), o)

\* The caller has the outcome and goes on to its next call.
Continue ==
  /\ pc = "done"
  /\ pc' = "idle" /\ call' = NoCall /\ outcome' = NoOutcome
  /\ UNCHANGED <<table, thrvars>>

Next ==
  \/ Call_comma_separated_validator
  \/ Call_parts_validator
  \/ Call_incompatible_validator
  \/ Call_enf_comma_separated
  \/ Call_enf_parts
  \/ Continue

Spec == Init /\ [][Next]_vars

\* ------------------------------------------- two threads, calls interleaved
\* The arguments the threads draw from: every branch of every function.
ThreadValues ==
  {PyNone, PyStr(<<"a">>), PyStr(<<"a", ",", "b">>), PyInt(0),
   PyList(<<PyStr(<<"a">>), PyStr(<<"a">>)>>),
   PySet({PyStr(<<"a">>), PyStr(<<"b">>)})}
ThreadKwargs ==
  {kw \in Kwargs : Len(kw) = 2 /\ kw[1].name = <<"x">> /\ kw[2].name = <<"y">>
                   /\ \A i \in 1..2 : kw[i].value \in {PyNone, PyStr(<<"a">>), PyInt(0)}}

TFinish(t, c, o) ==
  /\ tpc' = [tpc EXCEPT ![t] = "done"]
  /\ tcall' = [tcall EXCEPT ![t] = c]
  /\ tout' = [tout EXCEPT ![t] = o]
  /\ UNCHANGED <<table, tparts, seqvars>>

T_comma_separated_validator(t) ==
  /\ tpc[t] = "idle"
  /\ \E kw \in ThreadKwargs :
       TFinish(t, CallOf("comma_separated_validator", <<>>, <<>>, PyNone, kw),
               comma_separated_validator(kw))

T_parts_validator(t) ==
  /\ tpc[t] = "idle"
  /\ \E r \in Resources, v \in ThreadValues :
       \E o \in parts_validator(table, r, v) :
         TFinish(t, CallOf("parts_validator", r, <<>>, v, <<>>), o)

T_incompatible_validator(t) ==
  /\ tpc[t] = "idle"
  /\ \E kw \in ThreadKwargs :
       TFinish(t, CallOf("incompatible_validator", <<>>, <<>>, PyNone, kw),
               incompatible_validator(kw))

T_enf_comma_separated(t) ==
  /\ tpc[t] = "idle"
  /\ \E v \in ThreadValues :
       \E o \in enf_comma_separated(<<"x">>, v) :
         TFinish(t, CallOf("enf_comma_separated", <<>>, <<"x">>, v, <<>>), o)

\* enf_parts reads the table twice (lines 151 and 164); another thread may
\* run between the two reads.
T_enf_parts_resolve(t) ==
  /\ tpc[t] = "idle"
  /\ \E r \in Resources, v \in ThreadValues :
       LET res == enf_parts_resolve(table, r, v)
       IN /\ tcall' = [tcall EXCEPT ![t] = CallOf("enf_parts", r, <<>>, v, <<>>)]
          /\ IF res.tag = "raise"
             THEN /\ tpc' = [tpc EXCEPT ![t] = "done"]
                  /\ tout' = [tout EXCEPT ![t] = res.out]
                  /\ UNCHANGED tparts
             ELSE /\ tpc' = [tpc EXCEPT ![t] = "resolved"]
                  /\ tparts' = [tparts EXCEPT ![t] = res]
                  /\ UNCHANGED tout
  /\ UNCHANGED <<table, seqvars>>

\* The set the local variable parts refers to: the table's own set when
\* aliased, whatever that set holds by now.
LiveParts(tbl, resource, r) == IF r.aliased THEN tbl[resource] ELSE r.parts

T_enf_parts_check(t) ==
  /\ tpc[t] = "resolved"
  /\ \E o \in enf_parts_check(table, tcall[t].resource,
                              LiveParts(table, tcall[t].resource, tparts[t])) :
       /\ tout' = [tout EXCEPT ![t] = o]
       /\ tpc' = [tpc EXCEPT ![t] = "done"]
       /\ tparts' = [tparts EXCEPT ![t] = NoParts]
       /\ table' = table_after_check(table, tcall[t].resource, tparts[t])
  /\ UNCHANGED <<tcall, seqvars>>

T_return(t) ==
  /\ tpc[t] = "done"
  /\ tpc' = [tpc EXCEPT ![t] = "idle"]
  /\ tcall' = [tcall EXCEPT ![t] = NoCall]
  /\ tout' = [tout EXCEPT ![t] = NoOutcome]
  /\ UNCHANGED <<table, tparts, seqvars>>

ThreadsNext ==
  \E t \in Threads :
    \/ T_comma_separated_validator(t)
    \/ T_parts_validator(t)
    \/ T_incompatible_validator(t)
    \/ T_enf_comma_separated(t)
    \/ T_enf_parts_resolve(t)
    \/ T_enf_parts_check(t)
    \/ T_return(t)

ThreadsSpec == Init /\ [][ThreadsNext]_vars

\* ------------------------------------------------- reading an outcome back
RaisedKind(o, code) ==
  o.tag = "raise" /\ o.exc = "PyYouTubeException" /\ o.code = code
ReturnedNormally(o) == o.tag = "return"

AtomAt(msg, atom) == CHOOSE i \in 1..Len(msg) : msg[i] = atom
TextBetween(msg, pre, post) ==
  SubSeq(msg, AtomAt(msg, pre) + 1, AtomAt(msg, post) - 1)

\* The unsupported parts and the resource a "not support" message names.
PartsNamed(msg) == Range(SplitComma(TextBetween(msg, msg[1], " for resource ")))
ResourceNamed(msg) == TextBetween(msg, " for resource ", " not support")

\* The values enf_parts and enf_comma_separated are documented to accept.
AllStr(v) == \A x \in AsSet(v) : IsStr(x)
Accepted(v) == v = PyNone \/ IsStr(v) \/ (IsCollection(v) /\ AllStr(v))

Done(fn) == pc = "done" /\ call.fn = fn
KnownResource == call.resource \in DOMAIN table

\* --------------------------------------------------------------------- C1
Present(kw) == {i \in DOMAIN kw : kw[i].value.kind # "NoneType"}
NamesOf(kw) == [i \in DOMAIN kw |-> kw[i].name]

\* C1: incompatible_validator on a non-empty mapping raises MISSING_PARAMS
\* when no value is non-null, INVALID_PARAMS when more than one is, and
\* returns when exactly one is ("", 0 and False count as present); either
\* message lists all the names of the call, comma-joined in input order.
C1_IncompatibleByCount ==
  (Done("incompatible_validator") /\ Len(call.kwargs) > 0) =>
    LET given == Cardinality(Present(call.kwargs))
        listed == SplitComma(Tail(outcome.msg)) = NamesOf(call.kwargs)
    IN /\ given = 0 =>
            /\ RaisedKind(outcome, MISSING_PARAMS)
            /\ outcome.msg[1] = "Specify at least one of " /\ listed
       /\ given > 1 =>
            /\ RaisedKind(outcome, INVALID_PARAMS)
            /\ outcome.msg[1] = "Incompatible parameters specified for " /\ listed
       /\ given = 1 => ReturnedNormally(outcome)

\* False alone among three names: the call returns.
C1_Witness ==
  /\ Done("incompatible_validator") /\ Len(call.kwargs) = 3
  /\ call.kwargs[1].value = PyNone /\ call.kwargs[2].value = PyBool(0)
  /\ call.kwargs[3].value = PyNone
  /\ ReturnedNormally(outcome)

\* --------------------------------------------------------------------- C2
\* C2: whenever enf_parts returns a string for a resource of the table and an
\* accepted value (null, a str, or a list, tuple or set of str, the empty
\* collection included), every token of the returned string split on
\* commas is a permitted part of the resource.
C2_ReturnedTokensPermitted ==
  (Done("enf_parts") /\ KnownResource /\ Accepted(call.value)
     /\ ReturnedNormally(outcome)) =>
    \A tok \in Range(SplitComma(outcome.val.s)) :
      PyStr(tok) \in table[call.resource]

\* --------------------------------------------------------------------- C3
\* The first present value that is not a str and has no split method.
Unsplittable(kw) ==
  {i \in DOMAIN kw : kw[i].value # PyNone /\ ~HasSplit(kw[i].value)}
FirstOf(S) == CHOOSE i \in S : \A j \in S : i <= j

\* C3: comma_separated_validator raises nothing when every present value is
\* a str; when some present value is not a str and cannot be split on a
\* comma, it raises INVALID_PARAMS with a message holding the name of the
\* first such parameter; null values are skipped.
C3_CommaSeparatedByType ==
  Done("comma_separated_validator") =>
    LET kw == call.kwargs
    IN /\ (\A i \in DOMAIN kw : kw[i].value = PyNone \/ IsStr(kw[i].value))
            => ReturnedNormally(outcome)
       /\ Unsplittable(kw) # {} =>
            /\ RaisedKind(outcome, INVALID_PARAMS)
            /\ TextBetween(outcome.msg, "Parameter ",
                           " must be str or comma-separated list str")
                 = kw[FirstOf(Unsplittable(kw))].name

\* --------------------------------------------------------------------- C4
Requested(v) == Range(SplitComma(v.s))
NotPermitted(v) == {tok \in Requested(v) : PyStr(tok) \notin table[call.resource]}

\* C4: parts_validator on a resource of the table returns for null parts;
\* for a str it raises INVALID_PARAMS exactly when some comma-split token is
\* not permitted, and the message then names the resource and exactly the
\* requested tokens that are not permitted.
C4_PartsValidatorNamesUnsupported ==
  (Done("parts_validator") /\ KnownResource) =>
    /\ call.value = PyNone => ReturnedNormally(outcome)
    /\ IsStr(call.value) =>
         /\ RaisedKind(outcome, INVALID_PARAMS) <=> NotPermitted(call.value) # {}
         /\ NotPermitted(call.value) = {} => ReturnedNormally(outcome)
         /\ NotPermitted(call.value) # {} =>
              /\ outcome.msg[1] = "Part "
              /\ PartsNamed(outcome.msg) = NotPermitted(call.value)
              /\ ResourceNamed(outcome.msg) = call.resource

\* A permitted token requested beside two that are not.
C4_Witness ==
  /\ Done("parts_validator") /\ KnownResource /\ IsStr(call.value)
  /\ Cardinality(NotPermitted(call.value)) = 2
  /\ Cardinality(Requested(call.value)) = 3
  /\ RaisedKind(outcome, INVALID_PARAMS)

\* --------------------------------------------------------------------- C5
ItemStrs(q) == [i \in DOMAIN q |-> q[i].s]

\* C5: enf_comma_separated returns null for null, a str unchanged, the
\* comma-join in original order (duplicates kept) for a list or tuple of
\* str, and for a set of str a comma-join of exactly its elements after one
\* warning; any other type, and a collection with an element that is not a
\* str, raise INVALID_PARAMS naming the field.
C5_EnfCommaSeparatedByType ==
  Done("enf_comma_separated") =>
    LET v == call.value
    IN /\ v = PyNone => outcome = Returns(PyNone, <<>>)
       /\ IsStr(v) => ReturnedNormally(outcome) /\ outcome.val = v
       /\ (v.kind \in {"list", "tuple"} /\ AllStr(v)) =>
            /\ ReturnedNormally(outcome)
            /\ outcome.val = PyStr(JoinComma(ItemStrs(v.items)))
       /\ (v.kind = "set" /\ AllStr(v)) =>
            /\ ReturnedNormally(outcome)
            /\ outcome.log = <<SetOrderWarning>>
            /\ \E o \in Orders(v.elems) : outcome.val = PyStr(JoinComma(ItemStrs(o)))
       /\ (~Accepted(v)) =>
            /\ RaisedKind(outcome, INVALID_PARAMS)
            /\ TextBetween(outcome.msg, "Parameter (",
                 ") must be single str,comma-separated str,list,tuple or set")
                 = call.field

\* A list with the same str twice: both occurrences are in the result.
C5_Witness ==
  /\ Done("enf_comma_separated")
  /\ call.value = PyList(<<PyStr(<<"a">>), PyStr(<<"a">>)>>)
  /\ outcome.val = PyStr(<<"a", ",", "a">>)

\* --------------------------------------------------------------------- C6
\* The requested set enf_parts is documented to resolve value to.
ResolvedSet(v) ==
  IF v = PyNone THEN table[call.resource]
  ELSE IF IsStr(v) THEN {PyStr(tok) : tok \in Requested(v)}
  ELSE AsSet(v)

\* C6: when enf_parts succeeds, the returned string is the comma-join of the
\* resolved requested set, each token exactly once: the full permitted set
\* for null, the comma-split tokens for a str, the elements for a list, tuple
\* or set.
C6_ReturnsResolvedSetOnce ==
  (Done("enf_parts") /\ KnownResource /\ ReturnedNormally(outcome)) =>
    LET S == ResolvedSet(call.value)
        toks == SplitComma(outcome.val.s)
    IN /\ outcome.val.kind = "str"
       /\ IF S = {} THEN outcome.val.s = <<>>
          ELSE /\ {PyStr(tok) : tok \in Range(toks)} = S
               /\ Len(toks) = Cardinality(S)

\* A list naming one part twice: it is returned once.
C6_Witness ==
  /\ Done("enf_parts") /\ call.resource = Video
  /\ call.value = PyList(<<PyStr(<<"a">>), PyStr(<<"a">>)>>)
  /\ outcome.val = PyStr(<<"a">>)

\* --------------------------------------------------------------------- C7
\* C7: a call of any of the five functions, with a resource of the table and
\* values of any type, returns or raises the validation exception with kind
\* INVALID_PARAMS or MISSING_PARAMS; nothing else reaches the caller.
C7_OnlyValidationExceptions ==
  (pc = "done" /\ (call.fn \in {"parts_validator", "enf_parts"} => KnownResource)) =>
    \/ ReturnedNormally(outcome)
    \/ RaisedKind(outcome, INVALID_PARAMS)
    \/ RaisedKind(outcome, MISSING_PARAMS)

\* --------------------------------------------------------------------- C8
ValidatorOutcomes == parts_validator(table, call.resource, call.value)
EnfPartsOnStr == Done("enf_parts") /\ KnownResource /\ IsStr(call.value)

\* C8 as stated: for a str value enf_parts raises INVALID_PARAMS exactly
\* when parts_validator does, and then with the same kind and the same
\* message.
C8_SameKindAndMessage ==
  EnfPartsOnStr =>
    /\ RaisedKind(outcome, INVALID_PARAMS)
         <=> \E o \in ValidatorOutcomes : RaisedKind(o, INVALID_PARAMS)
    /\ RaisedKind(outcome, INVALID_PARAMS) =>
         \E o \in ValidatorOutcomes : o.code = outcome.code /\ o.msg = outcome.msg

\* C8 amended: for a str value enf_parts raises INVALID_PARAMS exactly when
\* parts_validator does, and then both carry the same kind and both messages
\* name the same set of unsupported parts and the same resource; the texts
\* differ in the first word ("Parts" in enf_parts, "Part" in parts_validator).
C8_SameKindPartsAndResource ==
  EnfPartsOnStr =>
    /\ RaisedKind(outcome, INVALID_PARAMS)
         <=> \E o \in ValidatorOutcomes : RaisedKind(o, INVALID_PARAMS)
    /\ RaisedKind(outcome, INVALID_PARAMS) =>
         /\ outcome.msg[1] = "Parts "
         /\ \A o \in ValidatorOutcomes :
              /\ o.exc = outcome.exc /\ o.code = outcome.code
              /\ o.msg[1] = "Part "
              /\ PartsNamed(o.msg) = PartsNamed(outcome.msg)
              /\ ResourceNamed(o.msg) = ResourceNamed(outcome.msg)
              /\ ResourceNamed(o.msg) = call.resource

\* enf_parts refusing a str with one permitted and one unsupported token.
C8_Witness ==
  /\ EnfPartsOnStr /\ call.resource = Video
  /\ call.value = PyStr(<<"a", ",", "b">>)
  /\ RaisedKind(outcome, INVALID_PARAMS)

\* -------------------------------------------------------------------- C10
SameTokens(s1, s2) == Range(SplitComma(s1)) = Range(SplitComma(s2))

\* C10: the string r that enf_parts returns for an accepted value (the empty
\* collection included) is accepted by parts_validator, and enf_parts of r
\* succeeds with the same set of tokens.
C10_RoundTrip ==
  (Done("enf_parts") /\ KnownResource /\ Accepted(call.value)
     /\ ReturnedNormally(outcome)) =>
    /\ \A o \in parts_validator(table, call.resource, outcome.val) :
         ReturnedNormally(o)
    /\ \A o \in enf_parts(table, call.resource, outcome.val) :
         ReturnedNormally(o) /\ SameTokens(o.val.s, outcome.val.s)

\* --------------------------------------------------------------------- C9
\* What the call c yields when it runs alone on the table as initialised.
AloneOutcomes(c) ==
  IF c.fn = "comma_separated_validator" THEN {comma_separated_validator(c.kwargs)}
  ELSE IF c.fn = "incompatible_validator" THEN {incompatible_validator(c.kwargs)}
  ELSE IF c.fn = "parts_validator"
       THEN parts_validator(RESOURCE_PARTS_MAPPING, c.resource, c.value)
  ELSE IF c.fn = "enf_comma_separated" THEN enf_comma_separated(c.field, c.value)
  ELSE enf_parts(RESOURCE_PARTS_MAPPING, c.resource, c.value)

OutcomesAsAlone ==
  \A t \in Threads : tpc[t] = "done" => tout[t] \in AloneOutcomes(tcall[t])

\* C9: in every interleaving of calls by the threads no step changes the
\* lookup table, enf_parts on null (whose requested set is the table's own
\* set) included, and every finished call has an outcome it has when run
\* alone.
C9_TableReadOnly == [][table' = table]_vars /\ []OutcomesAsAlone

\* One thread has finished enf_parts on null while the other is between the
\* two table reads of enf_parts on null for the same resource.
C9_Witness ==
  /\ tpc[1] = "done" /\ tcall[1].fn = "enf_parts" /\ tcall[1].value = PyNone
  /\ tcall[1].resource = Video /\ ReturnedNormally(tout[1])
  /\ tpc[2] = "resolved" /\ tcall[2].resource = Video /\ tparts[2].aliased

====
